---- MODULE Spec2Model ----
(***************************************************************************)
(* A model of the ANPR near-mismatch report generator (src/test2.py):      *)
(* the edit-distance classifier, the Excel loader and filter, the          *)
(* per-source grouping and archive assembly of upload_file, the summary    *)
(* counts of create_pdf_report and the paginated row renderer of           *)
(* ANPR_Report_PDF.                                                        *)
(*                                                                         *)
(* Python strings are modelled as sequences of one-character strings, so   *)
(* that strip(), upper(), indexing and slicing are computed, not assumed.  *)
(***************************************************************************)
EXTENDS Integers, Sequences, FiniteSets, TLC

VARIABLES
    \* check_exactly_one_mismatch_or_missing called on its own
    arg_s1, arg_s2, returned, ret,
    \* upload_file: the uploaded sheet and the locals of the handler
    pc, file, columns, sheet, full_df, mismatch_df, count, error,
    mismatch_groups, zip_buffer, zf, total_pdf_count, flash, response,
    \* create_pdf_report called on its own: the rows of one source, its counts
    full_group, summary,
    \* create_pdf_report laying out a document, row by row
    rpc, n_rows, page, y, header_rows, rows, last_row, degraded, summary_at, output

cvars == <<arg_s1, arg_s2, returned, ret>>

uvars == <<pc, file, columns, sheet, full_df, mismatch_df, count, error,
           mismatch_groups, zip_buffer, zf, total_pdf_count, flash, response>>

svars == <<full_group, summary>>

rvars == <<rpc, n_rows, page, y, header_rows, rows, last_row, degraded,
           summary_at, output>>

vars == <<cvars, uvars, svars, rvars>>

(***************************************************************************)
(* Bounds of the model.                                                    *)
(***************************************************************************)
MaxLen == 3

MaxRows == 2

MaxGroupRows == 3

MaxReportRows == 17

(***************************************************************************)
(* Strings.                                                                *)
(***************************************************************************)
\* The characters the classifier's inputs are drawn from: one white-space
\* character and two letters.
Alphabet == {" ", "A", "B"}

IsSpace(c) == c = " "

RECURSIVE LStrip(_)
LStrip(s) == IF s = <<>> THEN s
             ELSE IF IsSpace(Head(s)) THEN LStrip(Tail(s)) ELSE s

RECURSIVE RStrip(_)
RStrip(s) == IF s = <<>> THEN s
             ELSE IF IsSpace(s[Len(s)]) THEN RStrip(SubSeq(s, 1, Len(s) - 1)) ELSE s

\* str.strip()
Strip(s) == RStrip(LStrip(s))

\* s[:k] + s[k+1:] for the 0-based k = i - 1
RemoveAt(s, i) == SubSeq(s, 1, i - 1) \o SubSeq(s, i + 1, Len(s))

Abs(n) == IF n < 0 THEN -n ELSE n

StringsUpTo(n) == UNION {[1..k -> Alphabet] : k \in 0..n}

(***************************************************************************)
(* The classifier.                                                         *)
(***************************************************************************)
\* A count that stops at the first mismatch
CountMismatchesAtLeastOne(a, b) ==
    IF Cardinality({i \in 1..Len(a) : a[i] # b[i]}) >= 1 THEN 1 ELSE 0

\* The loop of lines 43-46: the number of positions at which two strings of
\* the same length differ.
CountMismatches(a, b) == Cardinality({i \in 1..Len(a) : a[i] # b[i]})

\* The loop with range(len(s1) - 1): the last position is not tried
SomeRemovalButLastGives(longer, shorter) ==
    \E k \in 1..(Len(longer) - 1) : RemoveAt(longer, k) = shorter

\* The loop of lines 54-58: some single removal from the longer string gives
\* the shorter one.
SomeRemovalGives(longer, shorter) ==
    \E k \in 1..Len(longer) : RemoveAt(longer, k) = shorter

check_exactly_one_mismatch_or_missing(s1, s2) ==
    LET a == Strip(s1)
        b == Strip(s2)
        len1 == Len(a)
        len2 == Len(b)
    IN  IF a = b THEN FALSE
        ELSE IF len1 = len2 THEN CountMismatches(a, b) = 1
        ELSE IF Abs(len1 - len2) = 1
             THEN IF len1 < len2 THEN SomeRemovalGives(b, a)
                                 ELSE SomeRemovalGives(a, b)
        ELSE FALSE

(***************************************************************************)
(* No upload in progress.                                                  *)
(***************************************************************************)
NoUpload == [present |-> FALSE, filename |-> <<>>, workbook |-> "none"]

UploadIdle ==
    /\ pc = "idle"
    /\ file = NoUpload
    /\ columns = {}
    /\ sheet = <<>>
    /\ full_df = <<>>
    /\ mismatch_df = <<>>
    /\ count = 0
    /\ error = ""
    /\ mismatch_groups = <<>>
    /\ zip_buffer = "none"
    /\ zf = <<>>
    /\ total_pdf_count = 0
    /\ flash = "none"
    /\ response = "none"

ClassifierIdle ==
    /\ arg_s1 = <<>>
    /\ arg_s2 = <<>>
    /\ returned = FALSE
    /\ ret = FALSE

NoSummary == [raised |-> FALSE, report_title |-> <<>>, total_count |-> 0,
              mismatch_count |-> 0, zero_seq_count |-> 0, rows |-> 0]

SummaryIdle ==
    /\ full_group = <<>>
    /\ summary = NoSummary

NoRow == [data |-> <<"", "">>, cells |-> <<>>]

RenderIdle ==
    /\ rpc = "idle"
    /\ n_rows = 0
    /\ page = 0
    /\ y = 0
    /\ header_rows = {}
    /\ rows = <<>>
    /\ last_row = NoRow
    /\ degraded = FALSE
    /\ summary_at = [page |-> 0, y |-> 0]
    /\ output = FALSE

(***************************************************************************)
(* The classifier applied to a pair of strings.                            *)
(***************************************************************************)
InitClassifier ==
    /\ arg_s1 \in StringsUpTo(MaxLen)
    /\ arg_s2 \in StringsUpTo(MaxLen)
    /\ returned = FALSE
    /\ ret = FALSE
    /\ UploadIdle
    /\ SummaryIdle
    /\ RenderIdle

Classify ==
    /\ ~returned
    /\ returned' = TRUE
    /\ ret' = check_exactly_one_mismatch_or_missing(arg_s1, arg_s2)
    /\ UNCHANGED <<arg_s1, arg_s2>>
    /\ UNCHANGED <<uvars, svars, rvars>>

NextClassifier == Classify

SpecClassifier == InitClassifier /\ [][NextClassifier]_vars

(***************************************************************************)
(* Claims about the classifier.                                            *)
(***************************************************************************)
Hamming(a, b) == Cardinality({i \in 1..Len(a) : a[i] # b[i]})

InsertAt(s, k, c) == SubSeq(s, 1, k) \o <<c>> \o SubSeq(s, k + 1, Len(s))

OneInsertions(s) == {InsertAt(s, k, c) : k \in 0..Len(s), c \in Alphabet}

RECURSIVE IsSubsequence(_, _)
IsSubsequence(s, t) ==
    IF s = <<>> THEN TRUE
    ELSE IF t = <<>> THEN FALSE
    ELSE IF Head(s) = Head(t) THEN IsSubsequence(Tail(s), Tail(t))
                              \/ IsSubsequence(s, Tail(t))
    ELSE IsSubsequence(s, Tail(t))

\* t is s with two or more characters inserted
ManyInsertions(s, t) == Len(t) >= Len(s) + 2 /\ IsSubsequence(s, t)

\* C1 as stated: for all strings of equal length the classifier returns true
\* exactly when they differ in one position.
C1_AllStrings ==
    (returned /\ Len(arg_s1) = Len(arg_s2))
        => (ret = (Hamming(arg_s1, arg_s2) = 1))

\* C1 amended: for all strings whose trimmed forms have equal length, the
\* classifier returns true if the trimmed forms differ in exactly one position
\* and false if they differ in none or in two or more.
C1_TrimmedStrings ==
    (returned /\ Len(Strip(arg_s1)) = Len(Strip(arg_s2)))
        => (ret = (Hamming(Strip(arg_s1), Strip(arg_s2)) = 1))

C1_Witness ==
    /\ returned
    /\ ret = TRUE
    /\ Len(Strip(arg_s1)) = Len(Strip(arg_s2))
    /\ Len(Strip(arg_s1)) >= 2
    /\ arg_s1 # Strip(arg_s1)
    /\ Hamming(Strip(arg_s1), Strip(arg_s2)) = 1

\* C2 as stated: one inserted character (either argument order) gives true,
\* two or more inserted characters give false.
C2_AllStrings ==
    returned =>
        /\ (arg_s2 \in OneInsertions(arg_s1) \/ arg_s1 \in OneInsertions(arg_s2))
              => ret = TRUE
        /\ (ManyInsertions(arg_s1, arg_s2) \/ ManyInsertions(arg_s2, arg_s1))
              => ret = FALSE

\* C2 amended: when the trimmed form of one string is the trimmed form of the
\* other with exactly one character inserted, the classifier returns true
\* (either order); with two or more characters inserted, false.
C2_TrimmedStrings ==
    returned =>
        LET a == Strip(arg_s1)
            b == Strip(arg_s2)
        IN  /\ (b \in OneInsertions(a) \/ a \in OneInsertions(b)) => ret = TRUE
            /\ (ManyInsertions(a, b) \/ ManyInsertions(b, a)) => ret = FALSE

C2_Witness ==
    /\ returned
    /\ ret = TRUE
    /\ Len(Strip(arg_s1)) = 2
    /\ Strip(arg_s2) = InsertAt(Strip(arg_s1), 2, "B")

(***************************************************************************)
(* Cells, columns and rows of the uploaded sheet.                          *)
(***************************************************************************)
\* An empty cell, read by pandas as NaN. It is no string: its one element is
\* not a character.
NaN == <<"NaN">>

\* Series.astype(str), cell by cell
AsStr(v) == IF v = NaN THEN <<"n", "a", "n">> ELSE v

UpperLetters == {"A", "B", "C", "D", "E", "F", "G", "H", "I", "J", "K", "L", "M",
                 "N", "O", "P", "Q", "R", "S", "T", "U", "V", "W", "X", "Y", "Z"}

LowerLetters == {"a", "b", "c", "d", "e", "f", "g", "h", "i", "j", "k", "l", "m",
                 "n", "o", "p", "q", "r", "s", "t", "u", "v", "w", "x", "y", "z"}

Digits == {"0", "1", "2", "3", "4", "5", "6", "7", "8", "9"}

\* The ASCII letters, lower case and upper case
CasePairs == {<<"a", "A">>, <<"b", "B">>, <<"c", "C">>, <<"d", "D">>,
              <<"e", "E">>, <<"f", "F">>, <<"g", "G">>, <<"h", "H">>,
              <<"i", "I">>, <<"j", "J">>, <<"k", "K">>, <<"l", "L">>,
              <<"m", "M">>, <<"n", "N">>, <<"o", "O">>, <<"p", "P">>,
              <<"q", "Q">>, <<"r", "R">>, <<"s", "S">>, <<"t", "T">>,
              <<"u", "U">>, <<"v", "V">>, <<"w", "W">>, <<"x", "X">>,
              <<"y", "Y">>, <<"z", "Z">>}

UpperChar(c) == IF \E p \in CasePairs : p[1] = c
                THEN (CHOOSE p \in CasePairs : p[1] = c)[2] ELSE c

LowerChar(c) == IF \E p \in CasePairs : p[2] = c
                THEN (CHOOSE p \in CasePairs : p[2] = c)[1] ELSE c

\* str.upper() and str.lower()
Upper(s) == [i \in 1..Len(s) |-> UpperChar(s[i])]

Lower(s) == [i \in 1..Len(s) |-> LowerChar(s[i])]

\* ord() of the characters that occur in a source name
Ord(c) == CASE c = " " -> 32
            [] c = "/" -> 47
            [] c = "a" -> 97
            [] c = "b" -> 98
            [] c = "n" -> 110
            [] OTHER -> 0

\* a <= b for Python strings
RECURSIVE StrLeq(_, _)
StrLeq(a, b) ==
    IF a = <<>> THEN TRUE
    ELSE IF b = <<>> THEN FALSE
    ELSE IF Head(a) = Head(b) THEN StrLeq(Tail(a), Tail(b))
    ELSE Ord(Head(a)) < Ord(Head(b))

ANPR_COL == "ANPR Plate Number"

TC_COL == "TC_PLATE Number"

SOURCE_COL == "source"

SEQUENCE_COL == "ANPR Sequence"

IMAGE_COL == "image_path"

VEHICLE_COL == "vehicle_image"

COLUMNS_TO_KEEP == <<SEQUENCE_COL, ANPR_COL, TC_COL, IMAGE_COL, VEHICLE_COL>>

RequiredColumns == {ANPR_COL, TC_COL, SOURCE_COL}

AllColumns == RequiredColumns \cup {SEQUENCE_COL, IMAGE_COL, VEHICLE_COL}

\* The column sets an uploaded sheet may have
ColumnSets == {AllColumns,
               AllColumns \ {SEQUENCE_COL},
               AllColumns \ {IMAGE_COL, VEHICLE_COL},
               RequiredColumns,
               AllColumns \ {SOURCE_COL},
               AllColumns \ {ANPR_COL},
               AllColumns \ {TC_COL}}

\* The cells a row of the sheet is drawn from, column by column
CellValues(c) ==
    CASE c = ANPR_COL -> {<<" ", "a", "b">>}
      [] c = TC_COL -> {<<"a", "B">>, <<"A", "C">>, <<"X", "Y", "Z">>}
      [] c = SOURCE_COL -> {<<"a", " ", "b">>, <<"a", "/", "b">>, NaN, <<" ">>}
      [] c = SEQUENCE_COL -> {NaN, <<"0">>}
      [] c = IMAGE_COL -> {<<"p">>}
      [] c = VEHICLE_COL -> {NaN}

FullRows ==
    {  (ANPR_COL :> a) @@ (TC_COL :> t) @@ (SOURCE_COL :> s)
    @@ (SEQUENCE_COL :> q) @@ (IMAGE_COL :> i) @@ (VEHICLE_COL :> v) :
        a \in CellValues(ANPR_COL), t \in CellValues(TC_COL),
        s \in CellValues(SOURCE_COL), q \in CellValues(SEQUENCE_COL),
        i \in CellValues(IMAGE_COL), v \in CellValues(VEHICLE_COL) }

RowsFor(cols) == {[c \in cols |-> r[c]] : r \in FullRows}

Filter(df, keep) ==
    LET F[i \in 0..Len(df)] ==
            IF i = 0 THEN <<>>
            ELSE IF i \in keep THEN Append(F[i - 1], df[i]) ELSE F[i - 1]
    IN  F[Len(df)]

\* A validation that tests the two plate columns only
MissingRequiredPlatesOnly(cols) ==
    ANPR_COL \notin cols \/ TC_COL \notin cols

(***************************************************************************)
(* allowed_file                                                            *)
(***************************************************************************)
ALLOWED_EXTENSIONS == {<<"x", "l", "s", "x">>, <<"x", "l", "s">>}

\* filename.rsplit('.', 1)[1], for a name that holds a dot
Extension(filename) ==
    LET dots == {i \in 1..Len(filename) : filename[i] = "."}
        last == CHOOSE i \in dots : \A j \in dots : j <= i
    IN  SubSeq(filename, last + 1, Len(filename))

allowed_file(filename) ==
    /\ \E i \in 1..Len(filename) : filename[i] = "."
    /\ Lower(Extension(filename)) \in ALLOWED_EXTENSIONS

\* The tests of lines 283, 289 and 293
UploadAccepted(f) == f.present /\ f.filename # <<>> /\ allowed_file(f.filename)

(***************************************************************************)
(* process_excel_data                                                      *)
(***************************************************************************)
MissingRequired(cols) ==
    ANPR_COL \notin cols \/ TC_COL \notin cols \/ SOURCE_COL \notin cols

\* The cleaning without .str.upper()
NormalizePlateNoUpper(v) == Strip(AsStr(v))

\* .astype(str).str.strip().str.upper()
NormalizePlate(v) == Upper(Strip(AsStr(v)))

\* .astype(str).str.strip()
NormalizeSource(v) == Strip(AsStr(v))

CleanRow(r) ==
    [r EXCEPT ![ANPR_COL] = NormalizePlate(@),
              ![TC_COL] = NormalizePlate(@),
              ![SOURCE_COL] = NormalizeSource(@)]

filter_mask(df) ==
    {i \in 1..Len(df) :
        check_exactly_one_mismatch_or_missing(df[i][ANPR_COL], df[i][TC_COL])}

\* The result triple (mismatch_df, count, full_df); a count that is a string in
\* the code is the field error here, and None is the empty frame. The
\* workbook is a readable one with a Sheet1 ("sheet"), one that is no zip
\* container ("corrupt", BadZipFile) or one without a Sheet1 ("no Sheet1", the
\* ValueError of read_excel).
process_excel_data(workbook, cols, records) ==
    IF workbook = "corrupt"
    THEN [mismatch_df |-> <<>>, count |-> 0, full_df |-> <<>>,
          error |-> "File Error: The uploaded file is corrupted or not a valid Excel (.xlsx) file."]
    ELSE IF workbook = "no Sheet1"
    THEN [mismatch_df |-> <<>>, count |-> 0, full_df |-> <<>>,
          error |-> "Worksheet named 'Sheet1' not found"]
    ELSE IF MissingRequired(cols)
    THEN [mismatch_df |-> <<>>, count |-> 0, full_df |-> <<>>,
          error |-> "Excel missing required columns"]
    ELSE IF ~(RequiredColumns \subseteq cols)
    THEN [mismatch_df |-> <<>>, count |-> 0, full_df |-> <<>>,
          error |-> "An unexpected error occurred during Excel reading"]
    ELSE LET full == [i \in 1..Len(records) |-> CleanRow(records[i])]
             mismatch == Filter(full, filter_mask(full))
         IN  [mismatch_df |-> mismatch, count |-> Len(mismatch),
              full_df |-> full, error |-> ""]

(***************************************************************************)
(* Grouping by source, file names.                                         *)
(***************************************************************************)
RECURSIVE SortKeys(_)
SortKeys(S) ==
    IF S = {} THEN <<>>
    ELSE LET m == CHOOSE x \in S : \A z \in S : StrLeq(x, z)
         IN  <<m>> \o SortKeys(S \ {m})

\* The keys of full_df.groupby(SOURCE_COL)
GroupKeysOfFullFrame(df) == SortKeys({full_df[i][SOURCE_COL] : i \in 1..Len(full_df)})

\* The keys of df.groupby(SOURCE_COL), which iterates in sorted order
GroupKeys(df) == SortKeys({df[i][SOURCE_COL] : i \in 1..Len(df)})

\* groups.get_group(key)
get_group(df, key) == Filter(df, {i \in 1..Len(df) : df[i][SOURCE_COL] = key})

UNSPECIFIED_SOURCE ==
    <<"U", "N", "S", "P", "E", "C", "I", "F", "I", "E", "D", "_",
      "S", "O", "U", "R", "C", "E">>

\* Lines 323-324
ReportSourceName(source_name) ==
    IF source_name = <<>> \/ Lower(Strip(source_name)) = <<"n", "a", "n">>
    THEN UNSPECIFIED_SOURCE
    ELSE source_name

\* "_".join(s.split())
RECURSIVE JoinWords(_)
JoinWords(s) ==
    IF s = <<>> THEN <<>>
    ELSE IF IsSpace(Head(s))
         THEN IF Tail(s) # <<>> /\ IsSpace(Head(Tail(s)))
              THEN JoinWords(Tail(s))
              ELSE <<"_">> \o JoinWords(Tail(s))
    ELSE <<Head(s)>> \o JoinWords(Tail(s))

IsFilenameChar(c) == c \in UpperLetters \cup LowerLetters \cup Digits \cup {"_", ".", "-"}

RECURSIVE StripDotsLeft(_)
StripDotsLeft(s) ==
    IF s # <<>> /\ Head(s) \in {".", "_"} THEN StripDotsLeft(Tail(s)) ELSE s

RECURSIVE StripDotsRight(_)
StripDotsRight(s) ==
    IF s # <<>> /\ s[Len(s)] \in {".", "_"}
    THEN StripDotsRight(SubSeq(s, 1, Len(s) - 1)) ELSE s

\* werkzeug.utils.secure_filename on ASCII input: path separators become
\* spaces, runs of white space become one underscore, every character outside
\* [A-Za-z0-9_.-] is dropped, leading and trailing dots and underscores go.
secure_filename(filename) ==
    LET seps == [i \in 1..Len(filename) |->
                    IF filename[i] = "/" THEN " " ELSE filename[i]]
        joined == JoinWords(Strip(seps))
        ascii == SelectSeq(joined, IsFilenameChar)
    IN  StripDotsRight(StripDotsLeft(ascii))

\* f"ANPR_Report_{safe_source_name}.pdf"
pdf_filename(safe_source_name) ==
    <<"A", "N", "P", "R", "_", "R", "e", "p", "o", "r", "t", "_">>
        \o safe_source_name \o <<".", "p", "d", "f">>

(***************************************************************************)
(* create_pdf_report: the summary counts.                                  *)
(***************************************************************************)
\* df.reindex(columns=COLUMNS_TO_KEEP, fill_value='')
Reindex(df) ==
    [i \in 1..Len(df) |->
        [c \in {COLUMNS_TO_KEEP[k] : k \in 1..Len(COLUMNS_TO_KEEP)} |->
            IF c \in DOMAIN df[i] THEN df[i][c] ELSE <<>>]]

\* The two frames taken for one another
SummaryCountsSwapped(df_mismatch, df_full_source) ==
    [total_count |-> Len(df_mismatch), mismatch_count |-> Len(df_full_source)]

\* total_vehicles and mismatch_vehicles
SummaryCounts(df_mismatch, df_full_source) ==
    [total_count |-> Len(df_full_source), mismatch_count |-> Len(df_mismatch)]

\* The three tests of lines 235-237 on one cell of the sequence column
IsZeroSequence(v) ==
    \/ Strip(AsStr(v)) = <<"0">>
    \/ v = NaN
    \/ Strip(AsStr(v)) = <<"u", "n", "i", "d", "e", "n", "t", "i", "f", "i", "e", "d">>

\* zero_seq_count, given the cells of df_full_source[SEQUENCE_COL]
ZeroSeqCount(cells) == Cardinality({i \in 1..Len(cells) : IsZeroSequence(cells[i])})

\* The report of one source: raised is the KeyError of indexing a frame that
\* has no sequence column; otherwise the values the document is built from.
create_pdf_report(df_mismatch, df_full_source, source_name) ==
    LET df_report == Reindex(df_mismatch)
        counts == SummaryCounts(df_mismatch, df_full_source)
        has_seq == \A i \in 1..Len(df_full_source) :
                       SEQUENCE_COL \in DOMAIN df_full_source[i]
    IN  [raised |-> ~has_seq,
         report_title |-> source_name,
         total_count |-> counts.total_count,
         mismatch_count |-> counts.mismatch_count,
         zero_seq_count |->
            IF has_seq
            THEN ZeroSeqCount([i \in 1..Len(df_full_source) |->
                                  df_full_source[i][SEQUENCE_COL]])
            ELSE 0,
         rows |-> Len(df_report)]

(***************************************************************************)
(* upload_file, from the call of process_excel_data on.                    *)
(***************************************************************************)
\* The request: no file part, no file name, a file name that is refused, and
\* accepted files that are corrupt, lack Sheet1 or hold a sheet
Init ==
    /\ ClassifierIdle
    /\ SummaryIdle
    /\ RenderIdle
    /\ pc = "upload"
    /\ \/ /\ file \in {NoUpload,
                       [present |-> TRUE, filename |-> <<>>, workbook |-> "none"],
                       [present |-> TRUE, filename |-> <<"d", ".", "t", "x", "t">>,
                        workbook |-> "none"],
                       [present |-> TRUE, filename |-> <<"d", ".", "X", "L", "S", "X">>,
                        workbook |-> "corrupt"],
                       [present |-> TRUE, filename |-> <<"d", ".", "x", "l", "s">>,
                        workbook |-> "no Sheet1"]}
          /\ columns = {}
          /\ sheet = <<>>
       \/ /\ file = [present |-> TRUE, filename |-> <<"d", ".", "X", "L", "S", "X">>,
                     workbook |-> "sheet"]
          /\ columns \in ColumnSets
          /\ sheet \in UNION {[1..n -> RowsFor(columns)] : n \in 0..MaxRows}
    /\ full_df = <<>>
    /\ mismatch_df = <<>>
    /\ count = 0
    /\ error = ""
    /\ mismatch_groups = <<>>
    /\ zip_buffer = "none"
    /\ zf = <<>>
    /\ total_pdf_count = 0
    /\ flash = "none"
    /\ response = "none"

\* Lines 283-291 and 355-357
RejectUpload ==
    /\ UNCHANGED <<cvars, svars, rvars>>
    /\ pc = "upload"
    /\ ~UploadAccepted(file)
    /\ flash' = IF ~file.present THEN "No file part in the request."
                ELSE IF file.filename = <<>> THEN "No selected file."
                ELSE "Invalid file type. Only .xlsx and .xls are allowed."
    /\ response' = "redirect"
    /\ pc' = "done"
    /\ UNCHANGED <<file, columns, sheet, full_df, mismatch_df, count, error,
                   mismatch_groups, zip_buffer, zf, total_pdf_count>>

\* Line 296
ProcessExcelData ==
    /\ UNCHANGED <<cvars, svars, rvars>>
    /\ pc = "upload"
    /\ UploadAccepted(file)
    /\ \E r \in {process_excel_data(file.workbook, columns, sheet)} :
           /\ mismatch_df' = r.mismatch_df
           /\ count' = r.count
           /\ error' = r.error
           /\ full_df' = r.full_df
    /\ pc' = "processed"
    /\ UNCHANGED <<file, columns, sheet, mismatch_groups, zip_buffer, zf,
                   total_pdf_count, flash, response>>

\* Lines 298-300
ProcessingError ==
    /\ UNCHANGED <<cvars, svars, rvars>>
    /\ pc = "processed"
    /\ error # ""
    /\ flash' = "Processing Error: " \o error
    /\ response' = "redirect"
    /\ pc' = "done"
    /\ UNCHANGED <<file, columns, sheet, full_df, mismatch_df, count, error,
                   mismatch_groups, zip_buffer, zf, total_pdf_count>>

\* Lines 303-305
NoMismatches ==
    /\ UNCHANGED <<cvars, svars, rvars>>
    /\ pc = "processed"
    /\ error = ""
    /\ mismatch_df = <<>>
    /\ flash' = "File processed successfully! No near-mismatches found."
    /\ response' = "redirect"
    /\ pc' = "done"
    /\ UNCHANGED <<file, columns, sheet, full_df, mismatch_df, count, error,
                   mismatch_groups, zip_buffer, zf, total_pdf_count>>

\* Lines 308-315
GroupBySource ==
    /\ UNCHANGED <<cvars, svars, rvars>>
    /\ pc = "processed"
    /\ error = ""
    /\ mismatch_df # <<>>
    /\ mismatch_groups' = GroupKeys(mismatch_df)
    /\ zip_buffer' = "open"
    /\ total_pdf_count' = 0
    /\ pc' = "reports"
    /\ UNCHANGED <<file, columns, sheet, full_df, mismatch_df, count, error, zf,
                   flash, response>>

\* One iteration of the loop of lines 317-334; an exception leaves the loop
\* for the handler of lines 351-353.
GenerateReport ==
    /\ UNCHANGED <<cvars, svars, rvars>>
    /\ pc = "reports"
    /\ mismatch_groups # <<>>
    /\ LET key == Head(mismatch_groups)
           mismatch_group_df == get_group(mismatch_df, key)
           full_group_df == get_group(full_df, key)
           source_name == ReportSourceName(key)
       IN  \E pdf \in {create_pdf_report(mismatch_group_df, full_group_df, source_name)} :
           IF pdf.raised
           THEN /\ flash' = "An unexpected error occurred during processing or report generation"
                /\ response' = "redirect"
                /\ pc' = "done"
                /\ UNCHANGED <<mismatch_groups, zf, total_pdf_count>>
           ELSE /\ zf' = Append(zf, [name |-> pdf_filename(secure_filename(source_name)),
                                     pdf |-> pdf])
                /\ total_pdf_count' = total_pdf_count + 1
                /\ mismatch_groups' = Tail(mismatch_groups)
                /\ UNCHANGED <<flash, response, pc>>
    /\ UNCHANGED <<file, columns, sheet, full_df, mismatch_df, count, error, zip_buffer>>

\* Lines 336-349
SendFile ==
    /\ UNCHANGED <<cvars, svars, rvars>>
    /\ pc = "reports"
    /\ mismatch_groups = <<>>
    /\ zip_buffer' = "sent"
    /\ flash' = "Found near-mismatches. Downloading ZIP file."
    /\ response' = "zip"
    /\ pc' = "done"
    /\ UNCHANGED <<file, columns, sheet, full_df, mismatch_df, count, error,
                   mismatch_groups, zf, total_pdf_count>>

Next ==
    \/ RejectUpload
    \/ ProcessExcelData
    \/ ProcessingError
    \/ NoMismatches
    \/ GroupBySource
    \/ GenerateReport
    \/ SendFile

Spec == Init /\ [][Next]_vars

(***************************************************************************)
(* Claims about the pipeline, stated on the uploaded sheet.                *)
(***************************************************************************)
\* The request carried a readable workbook with a Sheet1
DatasetLoaded == file.workbook = "sheet"

HasRequiredColumns == \A c \in {ANPR_COL, TC_COL, SOURCE_COL} : c \in columns

\* A plate cell as text, trimmed and upper-cased
TrimmedUpper(v) ==
    LET t == Strip(IF v = NaN THEN <<"n", "a", "n">> ELSE v)
    IN  [i \in 1..Len(t) |-> UpperChar(t[i])]

\* A source cell as text, trimmed
TrimmedSource(v) == Strip(IF v = NaN THEN <<"n", "a", "n">> ELSE v)

\* The rows of the sheet whose plates are a near-mismatch after normalization
NearMismatchRows ==
    {i \in 1..Len(sheet) :
        check_exactly_one_mismatch_or_missing(TrimmedUpper(sheet[i][ANPR_COL]),
                                              TrimmedUpper(sheet[i][TC_COL]))}

\* The sources, as grouped, that have at least one near-mismatch row
MismatchSources == {TrimmedSource(sheet[i][SOURCE_COL]) : i \in NearMismatchRows}

\* C3: a sheet with the required columns and no near-mismatch row ends in the
\* empty-result outcome: the informational success message, and never an
\* archive or a report.
C3_EmptyResult ==
    (DatasetLoaded /\ HasRequiredColumns /\ NearMismatchRows = {}) =>
        /\ zip_buffer = "none"
        /\ zf = <<>>
        /\ total_pdf_count = 0
        /\ pc # "reports"
        /\ pc \in {"processed", "done"} => error = ""
        /\ pc = "done" =>
              /\ flash = "File processed successfully! No near-mismatches found."
              /\ response = "redirect"

C3_Witness ==
    /\ pc = "done"
    /\ DatasetLoaded
    /\ HasRequiredColumns
    /\ NearMismatchRows = {}
    /\ Len(sheet) >= 2
    /\ \E i \in 1..Len(sheet) : Strip(sheet[i][ANPR_COL]) # Strip(sheet[i][TC_COL])
    /\ flash = "File processed successfully! No near-mismatches found."

\* C4: a sheet that lacks a required column fails with the schema error, and
\* the run never groups, renders or assembles: no report, no archive.
C4_SchemaError ==
    (DatasetLoaded /\ ~HasRequiredColumns) =>
        /\ zip_buffer = "none"
        /\ zf = <<>>
        /\ total_pdf_count = 0
        /\ pc # "reports"
        /\ pc \in {"processed", "done"} => error = "Excel missing required columns"
        /\ pc = "done" =>
              /\ flash = "Processing Error: Excel missing required columns"
              /\ response = "redirect"

C4_Witness ==
    /\ pc = "done"
    /\ DatasetLoaded
    /\ SOURCE_COL \notin columns
    /\ ANPR_COL \in columns /\ TC_COL \in columns
    /\ Len(sheet) >= 1
    /\ flash = "Processing Error: Excel missing required columns"

\* C5: every mismatch row's source is a source of the full data, and no
\* report's mismatch count exceeds its total count.
C5_Grouping ==
    /\ \A i \in 1..Len(mismatch_df) :
          \E j \in 1..Len(full_df) : full_df[j][SOURCE_COL] = mismatch_df[i][SOURCE_COL]
    /\ \A k \in 1..Len(zf) : zf[k].pdf.mismatch_count <= zf[k].pdf.total_count

C5_Witness ==
    /\ pc = "done"
    /\ response = "zip"
    /\ \E k \in 1..Len(zf) : /\ zf[k].pdf.mismatch_count = 1
                             /\ zf[k].pdf.total_count = 2

\* C6 as stated: the archive of a successful run has as many entries as
\* there are distinct sanitized names among the sources with a mismatch row.
C6_DistinctSanitizedNames ==
    (pc = "done" /\ response = "zip") =>
        Len(zf) = Cardinality({secure_filename(ReportSourceName(s)) : s \in MismatchSources})

\* C6 amended: the archive of a successful run has as many entries as there
\* are distinct trimmed source values with a mismatch row; two sources whose
\* sanitized names are the same get an entry each, under the same name.
C6_DistinctSources ==
    (pc = "done" /\ response = "zip") =>
        /\ Len(zf) = Cardinality(MismatchSources)
        /\ {zf[k].name : k \in 1..Len(zf)} =
              {pdf_filename(secure_filename(ReportSourceName(s))) : s \in MismatchSources}

C6_Witness ==
    /\ pc = "done"
    /\ response = "zip"
    /\ Len(zf) = 2
    /\ zf[1].name = zf[2].name

\* C8: with the required columns and a near-mismatch row, the run ends with
\* an archive holding a report for each source with a mismatch, whichever of
\* the optional columns the sheet has.
C8_OptionalColumns ==
    (DatasetLoaded /\ HasRequiredColumns /\ NearMismatchRows # {} /\ pc = "done") =>
        /\ response = "zip"
        /\ Len(zf) = Cardinality(MismatchSources)

(***************************************************************************)
(* create_pdf_report applied to the rows of one source: the counts.        *)
(***************************************************************************)
Unidentified == <<"u", "n", "i", "d", "e", "n", "t", "i", "f", "i", "e", "d">>

\* The cells of the sequence column: empty (NaN), white space, "0",
\* "unidentified", "Unidentified" and an ordinary sequence
SequenceCells ==
    {NaN, <<" ">>, <<"0">>, Unidentified,
     <<"U", "n", "i", "d", "e", "n", "t", "i", "f", "i", "e", "d">>, <<"7">>}

InitSummary ==
    /\ ClassifierIdle
    /\ UploadIdle
    /\ RenderIdle
    /\ full_group \in UNION {[1..n -> {(SEQUENCE_COL :> v) : v \in SequenceCells}] :
                                n \in 1..MaxGroupRows}
    /\ summary = NoSummary

\* Lines 226-248, for a source whose mismatch rows are some of its rows
CreatePdfReport ==
    /\ summary = NoSummary
    /\ \E keep \in SUBSET (1..Len(full_group)) \ {{}} :
          summary' = create_pdf_report(Filter(full_group, keep), full_group,
                                       <<"a", " ", "b">>)
    /\ UNCHANGED <<full_group, cvars, uvars, rvars>>

NextSummary == CreatePdfReport

SpecSummary == InitSummary /\ [][NextSummary]_vars

\* C7: the zero-sequence count of a report is the number of the source's
\* records whose sequence is null, empty, "0", or "unidentified" in any
\* letter case.
C7_ZeroSequenceCount ==
    summary # NoSummary =>
        summary.zero_seq_count =
            Cardinality({i \in 1..Len(full_group) :
                LET v == full_group[i][SEQUENCE_COL]
                IN  \/ v = NaN
                    \/ v = <<>>
                    \/ v = <<"0">>
                    \/ Lower(v) = Unidentified})

(***************************************************************************)
(* The layout of one document: ANPR_Report_PDF and the rendering part of   *)
(* create_pdf_report. Lengths are in millimetres.                          *)
(***************************************************************************)
\* The height of an A4 page in portrait
PAGE_HEIGHT == 297

\* FPDF's default top margin
T_MARGIN == 10

\* set_auto_page_break(False, margin=15)
B_MARGIN == 15

page_break_trigger == PAGE_HEIGHT - B_MARGIN

\* header(): the title cell and the line break after it
TITLE_HEIGHT == 10

TITLE_GAP == 5

\* print_header_row(): the height of the header cells
HEADER_ROW_HEIGHT == 10

IMAGE_HEIGHT_MM == 30

\* The slack add_data_row adds to the row height in its test
ROW_SLACK == 5

\* The space create_pdf_report wants for the summary
SUMMARY_SPACE == 50

\* print_summary(): ln(10), a title of 10 and four lines of 7
SUMMARY_HEIGHT == 48

\* y after add_page(), which sets y to the top margin and calls header()
TopOfPage == T_MARGIN + TITLE_HEIGHT + TITLE_GAP

\* A test that looks at the current position only
NeedsPageBreakPastTrigger(y0) == y0 > page_break_trigger

\* Line 147
NeedsPageBreak(y0) == y0 + IMAGE_HEIGHT_MM + ROW_SLACK > page_break_trigger

\* The cells of the two image columns of the sheet: absent column (filled
\* with ''), empty cell, and the paths of a missing file, of a file that
\* cannot be loaded and of a good image
ImageCells == {"", "<NaN>", "gone.jpg", "bad.jpg", "ok.jpg"}

\* str(), lines 257-258
PyStr(v) == IF v = "<NaN>" THEN "nan" ELSE v

\* os.path.exists
PathExists(p) == p \in {"bad.jpg", "ok.jpg"}

\* self.image(...) returns (TRUE) or raises (FALSE)
ImageLoads(p) == p = "ok.jpg"

\* insert_image_cell without its try/except
insert_image_cell_no_except(image_path) ==
    IF image_path # "" /\ PathExists(image_path)
    THEN IF ImageLoads(image_path) THEN "image" ELSE "raise"
    ELSE "Image Not Found"

\* What insert_image_cell draws in its box; "raise" is an exception leaving it
insert_image_cell(image_path) ==
    IF image_path # "" /\ PathExists(image_path)
    THEN IF ImageLoads(image_path) THEN "image" ELSE "Image Load Error"
    ELSE "Image Not Found"

InitRender ==
    /\ ClassifierIdle
    /\ UploadIdle
    /\ SummaryIdle
    /\ rpc = "start"
    /\ n_rows \in 1..MaxReportRows
    /\ page = 0
    /\ y = 0
    /\ header_rows = {}
    /\ rows = <<>>
    /\ last_row = NoRow
    /\ degraded = FALSE
    /\ summary_at = [page |-> 0, y |-> 0]
    /\ output = FALSE

\* Lines 242-252: the first page and its header row
StartDocument ==
    /\ rpc = "start"
    /\ page' = page + 1
    /\ header_rows' = header_rows \cup {[page |-> page + 1, y |-> TopOfPage]}
    /\ y' = TopOfPage + HEADER_ROW_HEIGHT
    /\ rpc' = "rows"
    /\ UNCHANGED <<n_rows, rows, last_row, degraded, summary_at, output>>
    /\ UNCHANGED <<cvars, uvars, svars>>

\* One iteration of the loop of lines 255-260: add_data_row on the next row
AddDataRow ==
    /\ rpc = "rows"
    /\ Len(rows) < n_rows
    /\ \E image_cell \in ImageCells, vehicle_cell \in ImageCells :
          LET data == <<PyStr(image_cell), PyStr(vehicle_cell)>>
              break == NeedsPageBreak(y)
              row_page == IF break THEN page + 1 ELSE page
              y_start == IF break THEN TopOfPage + HEADER_ROW_HEIGHT ELSE y
              plate_image == insert_image_cell(data[1])
              vehicle_image == insert_image_cell(data[2])
          IN  IF plate_image = "raise" \/ vehicle_image = "raise"
              THEN /\ rpc' = "raised"
                   /\ UNCHANGED <<page, y, header_rows, rows, last_row, degraded>>
              ELSE /\ page' = row_page
                   /\ header_rows' =
                         IF break
                         THEN header_rows \cup {[page |-> row_page, y |-> TopOfPage]}
                         ELSE header_rows
                   /\ rows' = Append(rows, [page |-> row_page, y_start |-> y_start,
                                            page_before |-> page, y_before |-> y])
                   /\ last_row' = [data |-> data,
                                   cells |-> <<"text", "text", "text",
                                               plate_image, vehicle_image>>]
                   /\ degraded' = (degraded \/ plate_image # "image"
                                            \/ vehicle_image # "image")
                   /\ y' = y_start + IMAGE_HEIGHT_MM
                   /\ rpc' = "rows"
    /\ UNCHANGED <<n_rows, summary_at, output>>
    /\ UNCHANGED <<cvars, uvars, svars>>

\* Lines 263-266
PrintSummary ==
    /\ rpc = "rows"
    /\ Len(rows) = n_rows
    /\ LET break == y + SUMMARY_SPACE > page_break_trigger
           y0 == IF break THEN TopOfPage ELSE y
       IN  /\ page' = IF break THEN page + 1 ELSE page
           /\ summary_at' = [page |-> page', y |-> y0]
           /\ y' = y0 + SUMMARY_HEIGHT
    /\ rpc' = "summary"
    /\ UNCHANGED <<n_rows, header_rows, rows, last_row, degraded, output>>
    /\ UNCHANGED <<cvars, uvars, svars>>

\* Line 268
Output ==
    /\ rpc = "summary"
    /\ output' = TRUE
    /\ rpc' = "done"
    /\ UNCHANGED <<n_rows, page, y, header_rows, rows, last_row, degraded, summary_at>>
    /\ UNCHANGED <<cvars, uvars, svars>>

NextRender ==
    \/ StartDocument
    \/ AddDataRow
    \/ PrintSummary
    \/ Output

SpecRender == InitRender /\ [][NextRender]_vars

(***************************************************************************)
(* Claims about the renderer.                                              *)
(***************************************************************************)
\* C9: an image cell whose path is missing, whose file is absent or whose
\* load raises is drawn as a placeholder, for that cell only; the row's other
\* cells, the later rows and the summary are drawn and the document is
\* produced: no exception leaves add_data_row.
C9_ImagePlaceholders ==
    /\ rpc # "raised"
    /\ last_row # NoRow =>
          /\ Len(last_row.cells) = 5
          /\ \A k \in 1..3 : last_row.cells[k] = "text"
          /\ \A k \in 1..2 :
                LET p == last_row.data[k]
                    drawn == last_row.cells[3 + k]
                IN  /\ (p = "" \/ p \in {"nan", "gone.jpg"}) => drawn = "Image Not Found"
                    /\ p = "bad.jpg" => drawn = "Image Load Error"
                    /\ p = "ok.jpg" => drawn = "image"
    /\ rpc = "done" =>
          /\ Len(rows) = n_rows
          /\ summary_at.page >= 1
          /\ output

C9_Witness ==
    /\ rpc = "done"
    /\ output
    /\ n_rows >= 2
    /\ degraded
    /\ last_row.data = <<"ok.jpg", "bad.jpg">>
    /\ last_row.cells = <<"text", "text", "text", "image", "Image Load Error">>

\* C10: a row that would not fit above the page-break threshold starts a new
\* page with a header row; no row's band passes the threshold, and every
\* page with a data row has the header row above its data rows.
C10_Pagination ==
    \A i \in 1..Len(rows) :
        LET r == rows[i]
        IN  /\ r.y_before + IMAGE_HEIGHT_MM > page_break_trigger =>
                  /\ r.page = r.page_before + 1
                  /\ r.y_start = TopOfPage + HEADER_ROW_HEIGHT
            /\ r.y_start + IMAGE_HEIGHT_MM <= page_break_trigger
            /\ \E h \in header_rows :
                  /\ h.page = r.page
                  /\ h.y + HEADER_ROW_HEIGHT <= r.y_start

C10_Witness ==
    /\ rpc = "done"
    /\ \E i \in 1..Len(rows) :
          /\ rows[i].page = 2
          /\ rows[i].y_before + IMAGE_HEIGHT_MM > page_break_trigger
    /\ \E i \in 1..Len(rows) : rows[i].page = 3

====
